---- MODULE Spec2Model ----
(***************************************************************************)
(* Model of zwad/aad.py: the command line entry point main, the prior      *)
(* answers loader, the ConiferestEngine active-learning loop and the       *)
(* ResultsSink that records the decisions.                                 *)
(*                                                                         *)
(* The anomaly detector (train / score / observe), the oracle              *)
(* (click.confirm), load_data and the file system are the environment:     *)
(* the values they return and whether they fail are chosen                 *)
(* nondeterministically.  model_log and queries record what the detector   *)
(* and the oracle were asked, replies what the oracle answered; emitted    *)
(* and recorded record what the generator yielded and how many sink calls  *)
(* completed.                                                              *)
(***************************************************************************)
EXTENDS Integers, Sequences, FiniteSets, TLC

(* ---------------------------- bounds ----------------------------------- *)
\* largest number of rows of the feature matrix
MaxN == 3
\* largest requested budget
MaxBudget == 3
\* scores returned by the detector range over 0..MaxScore
MaxScore == 1
\* largest number of prior answers sources when load_answers is checked alone
MaxSources == 2
\* largest number of rows of a prior answers file when load_answers is
\* checked alone
MaxRows == 2

(* ---------------------------- values ----------------------------------- *)
ANOMALY == "ANOMALY"
REGULAR == "REGULAR"
HEADER == "oid,is_anomaly"
NoExc == "None"


Min(x, y) == IF x < y THEN x ELSE y

Range(s) == {s[i] : i \in DOMAIN s}

\* The prior answers files that exist: the rows (oid, is_anomaly) of each.
\* Row r of the data has identity 10 * r, so an identity is not in the data
\* when there are fewer rows.
PriorFile1 == <<[oid |-> 10, is_anomaly |-> FALSE],
                [oid |-> 10, is_anomaly |-> TRUE],
                [oid |-> 40, is_anomaly |-> FALSE]>>
PriorFile2 == <<[oid |-> 10, is_anomaly |-> FALSE],
                [oid |-> 20, is_anomaly |-> FALSE]>>
\* the lists of --prior_answers sources a command line may give
PriorAnswersArgs == {<<>>, <<PriorFile1>>, <<PriorFile2>>,
                     <<PriorFile1, PriorFile2>>, <<PriorFile2, PriorFile1>>}

(* ----------------------- pure functions -------------------------------- *)

\* dict.update / dict(zip(keys, values)): a later entry replaces an earlier
\* one with the same key
RECURSIVE DictOfRows(_)
DictOfRows(rows) ==
    IF rows = <<>> THEN <<>>
    ELSE LET n == Len(rows)
             head == DictOfRows(SubSeq(rows, 1, n - 1))
             last == rows[n]
         IN [k \in (DOMAIN head) \cup {last.oid} |->
                IF k = last.oid THEN last.is_anomaly ELSE head[k]]

load_single(file) == DictOfRows(file)

\* a merge in which the first source that has a key keeps it
RECURSIVE load_answers_keep_first(_)
load_answers_keep_first(sources) ==
    IF sources = <<>> THEN <<>>
    ELSE LET n == Len(sources)
             res == load_answers_keep_first(SubSeq(sources, 1, n - 1))
             upd == load_single(sources[n])
         IN [k \in (DOMAIN res) \cup (DOMAIN upd) |->
                IF k \in DOMAIN res THEN res[k] ELSE upd[k]]

RECURSIVE load_answers(_)
load_answers(sources) ==
    IF sources = <<>> THEN <<>>
    ELSE LET n == Len(sources)
             res == load_answers(SubSeq(sources, 1, n - 1))
             upd == load_single(sources[n])
         IN [k \in (DOMAIN res) \cup (DOMAIN upd) |->
                IF k \in DOMAIN upd THEN upd[k] ELSE res[k]]

\* the budget taken as requested, without the clamp to the number of rows
EffectiveBudgetUnclamped(budget, n) == budget

\* min(self._budget, feature.shape[0])
EffectiveBudget(budget, n) == Min(budget, n)

\* the ascending sequence of the elements of a set of row indices
RECURSIVE SortedSeq(_)
SortedSeq(S) ==
    IF S = {} THEN <<>>
    ELSE LET m == CHOOSE x \in S : \A y \in S : x <= y
         IN <<m>> \o SortedSeq(S \ {m})

\* a lookup that stops at the first row whose identity has an answer
KnownIndicesFirstOnly(oid, answers) ==
    LET S == {i \in DOMAIN oid : oid[i] \in DOMAIN answers}
    IN IF S = {} THEN <<>> ELSE <<CHOOSE x \in S : \A y \in S : x <= y>>

\* np.where(np.isin(oid, list(answers.keys())))[0]
KnownIndices(oid, answers) ==
    SortedSeq({i \in DOMAIN oid : oid[i] \in DOMAIN answers})

\* np.asarray(answers.values()) == 0: a dict view is not a sequence, so
\* numpy wraps it as one opaque object (a 0-d array) and the comparison with
\* 0 is the single boolean False, whatever the answers are
ValuesEqualZero(answers) == FALSE

\* known_labels[mask] = Label.REGULAR with a scalar boolean mask: True
\* selects every element, False selects none
KnownLabels(known_indices, answers) ==
    [k \in 1..Len(known_indices) |->
        IF ValuesEqualZero(answers) THEN REGULAR ELSE ANOMALY]

\* a seeding that returns an empty map after the model has observed the rows
KnownOfSeedEmpty(known_indices, known_labels) == <<>>

\* dict(zip(known_indices, known_labels))
KnownOfSeed(known_indices, known_labels) ==
    [i \in Range(known_indices) |->
        known_labels[CHOOSE k \in DOMAIN known_indices : known_indices[k] = i]]

Permutations1(n) == {p \in [1..n -> 1..n] : \A i, j \in 1..n : i # j => p[i] # p[j]}

\* an argsort that returns the rows in some order without sorting them
ArgsortUnsorted(scores) == Permutations1(Len(scores))

\* an argsort that puts the scores in descending order
ArgsortDescending(scores) ==
    {p \in Permutations1(Len(scores)) :
        \A i, j \in 1..Len(scores) : i < j => scores[p[i]] >= scores[p[j]]}

\* np.argsort(scores) with the default kind (quicksort), which is not
\* stable: any permutation that puts the scores in ascending order
Argsort(scores) ==
    {p \in Permutations1(Len(scores)) :
        \A i \in 1..(Len(scores) - 1) : scores[p[i]] <= scores[p[i + 1]]}

\* a filter that lets every row through, known or not
UnknownUnfiltered(scores_idx, known) == scores_idx

\* filter(lambda idx: idx not in known, scores_idx)
Unknown(scores_idx, known) ==
    SelectSeq(scores_idx, LAMBDA idx : idx \notin DOMAIN known)

\* Label.ANOMALY if result else Label.REGULAR
LabelOf(result) == IF result THEN ANOMALY ELSE REGULAR

\* "{:b}".format(decision)
Bit(decision) == IF decision THEN 1 ELSE 0

\* the line written to the answers target for one record
AnswerLine(name, decision) == <<name, Bit(decision)>>


(* ----------------------------- state ----------------------------------- *)
VARIABLES
    args,            \* the parsed command line (argparse Namespace)
    n_rows,          \* number of rows of the data files named by --oid/--feature
    pc,              \* position of the process in main
    exc,             \* the exception in flight, NoExc when there is none
    engine,          \* the ConiferestEngine: << >> until constructed
    answers,         \* main's answers: the merged prior answers
    answers_loaded,  \* load_answers has returned
    oids,            \* main's oids: << >> until load_data has returned
    sink_anomalies,  \* ResultsSink._anomalies and the file behind it
    sink_answers,    \* ResultsSink._answers and the file behind it
    known,           \* the generator's known: row index -> Label
    budget,          \* the generator's budget (the effective budget)
    i,               \* iterations of the generator's for loop completed
    scores,          \* the generator's scores
    scores_idx,      \* the generator's scores_idx
    a,               \* the row selected in this iteration (0: none)
    result,          \* the oracle's answer of this iteration
    model_log,       \* calls the anomaly detector has received, in order
    queries,         \* identities the oracle has been asked about, in order
    replies,         \* the answers the oracle has given, in order
    emitted,         \* records the generator has yielded, in order
    recorded         \* number of sink calls that have returned

vars == <<args, n_rows, pc, exc, engine, answers, answers_loaded, oids,
          sink_anomalies, sink_answers, known, budget, i, scores, scores_idx,
          a, result, model_log, queries, replies, emitted, recorded>>

\* the variables of the process other than pc, exc and the two files
locals == <<engine, answers, answers_loaded, oids, known, budget, i, scores,
            scores_idx, a, result>>
\* what the environment has seen
history == <<model_log, queries, replies, emitted, recorded>>
config == <<args, n_rows>>
files == <<sink_anomalies, sink_answers>>

\* a file object: handle is "None" (attribute is None), "open" or "closed";
\* buf is what has been written and not flushed, disk what has been flushed
NoFile == [handle |-> "None", buf |-> <<>>, disk |-> <<>>]

\* budget is the number the engine receives (the default 40 of line 198 is a
\* number; a --budget given as text stays a str and is not modelled)
Args ==
    [non_interactive : BOOLEAN,
     prior_answers : PriorAnswersArgs,
     answers : {"None", "answers.csv"},
     budget : 0..MaxBudget]

Init ==
    /\ args \in Args
    /\ n_rows \in 1..MaxN
    /\ pc = "parse_arguments"
    /\ exc = NoExc
    /\ engine = <<>>
    /\ answers = <<>>
    /\ answers_loaded = FALSE
    /\ oids = <<>>
    /\ sink_anomalies = NoFile
    /\ sink_answers = NoFile
    /\ known = <<>>
    /\ budget = 0
    /\ i = 0
    /\ scores = <<>>
    /\ scores_idx = <<>>
    /\ a = 0
    /\ result = FALSE
    /\ model_log = <<>>
    /\ queries = <<>>
    /\ replies = <<>>
    /\ emitted = <<>>
    /\ recorded = 0

(* ------------------------------ main ----------------------------------- *)

\* parse_arguments without its check of --answers
ParseRejectsWithoutAnswersCheck(ar) ==
    ar.non_interactive /\ ar.prior_answers = <<>>

\* the two checks parse_arguments makes of the mode
ParseRejects(ar) ==
    \/ ar.non_interactive /\ ar.prior_answers = <<>>
    \/ ar.non_interactive /\ ar.answers # "None"

\* an exception that leaves main outside the with block ends the process
Raise(e) == /\ exc' = e
            /\ pc' = "error"

\* an exception that is caught inside the loop, which then goes on with the
\* next iteration
RaiseInWithRetry(e) == /\ exc' = e
                       /\ pc' = "i_loop"

\* an exception inside the with block reaches ResultsSink.__exit__ first
RaiseInWith(e) == /\ exc' = e
                  /\ pc' = "exit"

\* --transform and --feature-names are not part of args here: whether the
\* command line gives them is chosen when they are read, in the third check
\* of parse_arguments and in the if of main
ParseArguments ==
    /\ pc = "parse_arguments"
    /\ IF ParseRejects(args) THEN Raise("ValueError")
       ELSE \/ Raise("ValueError")       \* --transform without --feature-names
            \/ pc' = "from_args" /\ exc' = exc
    /\ UNCHANGED <<config, locals, files, history>>

\* args.cls.from_args(args): the detector and the engine are constructed
FromArgs ==
    /\ pc = "from_args"
    /\ engine' = [budget |-> args.budget, non_interactive |-> args.non_interactive]
    /\ pc' = "load_answers"
    /\ UNCHANGED <<config, exc, answers, answers_loaded, oids, known, budget, i,
                   scores, scores_idx, a, result, files, history>>

LoadAnswers ==
    /\ pc = "load_answers"
    /\ \/ /\ answers' = load_answers(args.prior_answers)
          /\ answers_loaded' = TRUE
          /\ pc' = "load_data"
          /\ exc' = exc
       \/ /\ args.prior_answers # <<>>      \* pd.read_csv fails
          /\ Raise("InputError")
          /\ UNCHANGED <<answers, answers_loaded>>
    /\ UNCHANGED <<config, engine, oids, known, budget, i, scores, scores_idx,
                   a, result, files, history>>

\* oids, features = load_data(args.oid, args.feature)
LoadData ==
    /\ pc = "load_data"
    /\ \/ /\ oids' = [r \in 1..n_rows |-> 10 * r]
          /\ pc' \in {"transform", "sink_init"}     \* if args.transform
          /\ exc' = exc
       \/ /\ Raise("InputError")
          /\ oids' = oids
    /\ UNCHANGED <<config, engine, answers, answers_loaded, known, budget, i,
                   scores, scores_idx, a, result, files, history>>

\* the feature names are read and the features transformed
Transform ==
    /\ pc = "transform"
    /\ \/ pc' = "sink_init" /\ exc' = exc
       \/ Raise("InputError")              \* the feature names cannot be read
    /\ UNCHANGED <<config, locals, files, history>>

(* --------------------------- ResultsSink ------------------------------- *)

Opened == [handle |-> "open", buf |-> <<>>, disk |-> <<>>]

\* file.write on the attribute f: "ok", or the exception it raises
WriteOutcome(f) ==
    CASE f.handle = "None" -> "AttributeError"
      [] f.handle = "closed" -> "ValueError"
      [] OTHER -> "ok"

Written(f, line) == [f EXCEPT !.buf = Append(@, line)]

\* a flush that leaves the data in the buffer
NotFlushed(f) == f

\* file.flush when the device accepts the data
Flushed(f) == [f EXCEPT !.disk = @ \o f.buf, !.buf = <<>>]

\* file.close: pending data is flushed first; if that fails the descriptor
\* is closed all the same and the error is raised
CloseOutcomes(f) ==
    CASE f.handle = "None" -> {[file |-> f, raised |-> FALSE]}
      [] f.handle = "closed" -> {[file |-> f, raised |-> FALSE]}
      [] OTHER ->
           {[file |-> [Flushed(f) EXCEPT !.handle = "closed"], raised |-> FALSE]}
           \cup (IF f.buf = <<>> THEN {}
                 ELSE {[file |-> [f EXCEPT !.handle = "closed", !.buf = <<>>],
                        raised |-> TRUE]})

\* ResultsSink._cleanup: the outcomes of closing the two targets in turn; an
\* error raised by the first close leaves the second target as it is
CleanupOutcomes(an, ans) ==
    LET first == CloseOutcomes(an)
    IN {[anomalies |-> c.file, answers |-> ans, raised |-> TRUE] :
            c \in {c \in first : c.raised}}
       \cup
       {[anomalies |-> c.file, answers |-> d.file, raised |-> d.raised] :
            c \in {c \in first : ~c.raised},
            d \in (IF ans.handle = "None"
                   THEN {[file |-> ans, raised |-> FALSE]}
                   ELSE CloseOutcomes(ans))}

\* ResultsSink.__init__: an open that fails is caught by the bare except,
\* which closes what was opened and returns normally
SinkInit ==
    /\ pc = "sink_init"
    /\ \/ /\ sink_anomalies' = NoFile                  \* first open fails
          /\ sink_answers' = NoFile
       \/ /\ args.answers = "None"
          /\ sink_anomalies' = Opened
          /\ sink_answers' = NoFile
       \/ /\ args.answers # "None"
          /\ sink_anomalies' = Opened
          /\ sink_answers' = Written(Opened, <<HEADER>>)
       \/ /\ args.answers # "None"                     \* second open fails
          /\ \E c \in CleanupOutcomes(Opened, NoFile) :
                /\ ~c.raised
                /\ sink_anomalies' = c.anomalies
                /\ sink_answers' = c.answers
    /\ pc' = "train"
    /\ UNCHANGED <<config, exc, locals, history>>


(* ------------------------- ConiferestEngine ---------------------------- *)

\* run, first statement: self._anomaly_detector.train(feature)
Train ==
    /\ pc = "train"
    /\ model_log' = Append(model_log, [call |-> "train"])
    /\ \/ pc' = "seed" /\ exc' = exc
       \/ RaiseInWith("ModelError")
    /\ UNCHANGED <<config, locals, files, queries, replies, emitted, recorded>>

\* a seeding without the early return for an empty answers map: the model is
\* given an observe call even when there is nothing to observe
HandleInitialKnownsAlways(at, then) ==
    /\ pc = at
    /\ LET known_indices == KnownIndices(oids, answers)
           known_labels == KnownLabels(known_indices, answers)
       IN /\ model_log' = Append(model_log,
                                 [call |-> "observe",
                                  rows |-> known_indices,
                                  labels |-> known_labels])
          /\ \/ /\ known' = KnownOfSeed(known_indices, known_labels)
                /\ pc' = then
                /\ exc' = exc
             \/ /\ RaiseInWith("ModelError")
                /\ known' = known
    /\ UNCHANGED <<config, engine, answers, answers_loaded, oids, budget, i,
                   scores, scores_idx, a, result, files, queries, replies, emitted,
                   recorded>>

\* known = self._handle_initial_knowns(feature, oid, answers), called when
\* the caller is at position at; the caller goes on at position then
HandleInitialKnownsAt(at, then) ==
    /\ pc = at
    /\ IF DOMAIN answers = {}        \* answers is None or len(answers) == 0
       THEN /\ known' = <<>>
            /\ model_log' = model_log
            /\ pc' = then
            /\ exc' = exc
       ELSE LET known_indices == KnownIndices(oids, answers)
                known_labels == KnownLabels(known_indices, answers)
            IN /\ model_log' = Append(model_log,
                                      [call |-> "observe",
                                       rows |-> known_indices,
                                       labels |-> known_labels])
               /\ \/ /\ known' = KnownOfSeed(known_indices, known_labels)
                     /\ pc' = then
                     /\ exc' = exc
                  \/ /\ RaiseInWith("ModelError")
                     /\ known' = known
    /\ UNCHANGED <<config, engine, answers, answers_loaded, oids, budget, i,
                   scores, scores_idx, a, result, files, queries, replies, emitted,
                   recorded>>

\* run, the rest: _handle_initial_knowns, then the generator of the selected
\* mode is created (its body does not start before the first next())
HandleInitialKnowns == HandleInitialKnownsAt("seed", "start")

\* _run_interactive up to the loop: budget = min(self._budget, N)
InteractiveStart ==
    /\ pc = "start"
    /\ ~engine.non_interactive
    /\ budget' = EffectiveBudget(engine.budget, Len(oids))
    /\ pc' = "i_loop"
    /\ UNCHANGED <<config, exc, engine, answers, answers_loaded, oids, known, i,
                   scores, scores_idx, a, result, files, history>>

\* a loop that runs one iteration more than the budget
InteractiveLoopOffByOne ==
    /\ pc = "i_loop"
    /\ pc' = IF i <= budget THEN "score" ELSE "exit"
    /\ UNCHANGED <<config, exc, locals, files, history>>

\* for _ in range(budget): the next iteration starts, or the generator is
\* exhausted and the for loop of main ends
InteractiveLoop ==
    /\ pc = "i_loop"
    /\ pc' = IF i < budget THEN "score" ELSE "exit"
    /\ UNCHANGED <<config, exc, locals, files, history>>

\* scores = self._anomaly_detector.score(feature)
Score ==
    /\ pc = "score"
    /\ model_log' = Append(model_log, [call |-> "score"])
    /\ \/ /\ scores' \in [1..Len(oids) -> 0..MaxScore]
          /\ pc' = "select"
          /\ exc' = exc
       \/ /\ RaiseInWith("ModelError")
          /\ scores' = scores
    /\ UNCHANGED <<config, engine, answers, answers_loaded, oids, known, budget,
                   i, scores_idx, a, result, files, queries, replies, emitted, recorded>>

\* scores_idx = np.argsort(scores); a = next(filter(...)).  With no unknown
\* row left next() raises StopIteration, which a generator body turns into
\* RuntimeError (PEP 479)
Select ==
    /\ pc = "select"
    /\ scores_idx' \in Argsort(scores)
    /\ LET candidates == Unknown(scores_idx', known)
       IN IF candidates = <<>>
          THEN RaiseInWith("RuntimeError") /\ a' = a
          ELSE a' = Head(candidates) /\ pc' = "evaluate" /\ exc' = exc
    /\ UNCHANGED <<config, engine, answers, answers_loaded, oids, known, budget,
                   i, scores, result, files, history>>

\* a_oid = oid[a]; result, label = self._evaluate(a_oid)
Evaluate ==
    /\ pc = "evaluate"
    /\ queries' = Append(queries, oids[a])
    /\ \/ /\ result' \in BOOLEAN
          /\ replies' = Append(replies, result')
          /\ pc' = "observe"
          /\ exc' = exc
       \/ /\ RaiseInWith("Abort")           \* click.confirm is interrupted
          /\ result' = result
          /\ replies' = replies
    \* scores and scores_idx are not read again before the next iteration
    \* assigns them
    /\ scores' = <<>>
    /\ scores_idx' = <<>>
    /\ UNCHANGED <<config, engine, answers, answers_loaded, oids, known, budget,
                   i, a, files, model_log, emitted, recorded>>

\* observe(feature[a], label); known[a] = label
Observe ==
    /\ pc = "observe"
    /\ model_log' = Append(model_log, [call |-> "observe",
                                       rows |-> <<a>>,
                                       labels |-> <<LabelOf(result)>>])
    /\ \/ /\ known' = [r \in (DOMAIN known) \cup {a} |->
                          IF r = a THEN LabelOf(result) ELSE known[r]]
          /\ pc' = "yield"
          /\ exc' = exc
       \/ /\ RaiseInWith("ModelError")
          /\ known' = known
    /\ UNCHANGED <<config, engine, answers, answers_loaded, oids, budget, i,
                   scores, scores_idx, a, result, files, queries, replies, emitted,
                   recorded>>

\* a generator that goes on with the next iteration without handing the
\* record to its consumer first (the records are collected and handed over
\* later)
YieldEagerly ==
    /\ pc = "yield"
    /\ emitted' = Append(emitted, [oid |-> oids[a], decision |-> result])
    /\ i' = i + 1
    /\ pc' = "i_loop"
    /\ UNCHANGED <<config, exc, engine, answers, answers_loaded, oids, known,
                   budget, scores, scores_idx, a, result, files, model_log,
                   queries, replies, recorded>>

\* a yield that reports every queried row as an anomaly
YieldAlwaysTrue ==
    /\ pc = "yield"
    /\ emitted' = Append(emitted, [oid |-> oids[a], decision |-> TRUE])
    /\ pc' = "anomaly_write"
    /\ UNCHANGED <<config, exc, locals, files, model_log, queries, replies, recorded>>

\* yield (a_oid, result): main receives the record and calls the sink
Yield ==
    /\ pc = "yield"
    /\ emitted' = Append(emitted, [oid |-> oids[a], decision |-> result])
    /\ pc' = "anomaly_write"
    /\ UNCHANGED <<config, exc, locals, files, model_log, queries, replies, recorded>>

\* _run_non_interactive up to the loop: budget, one score call, one argsort
NonInteractiveStart ==
    /\ pc = "start"
    /\ engine.non_interactive
    /\ budget' = EffectiveBudget(engine.budget, Len(oids))
    /\ model_log' = Append(model_log, [call |-> "score"])
    /\ \/ /\ \E sc \in [1..Len(oids) -> 0..MaxScore] :
                /\ scores' = sc
                /\ scores_idx' \in Argsort(sc)
          /\ pc' = "n_loop"
          /\ exc' = exc
       \/ /\ RaiseInWith("ModelError")
          /\ UNCHANGED <<scores, scores_idx>>
    /\ UNCHANGED <<config, engine, answers, answers_loaded, oids, known, i, a,
                   result, files, queries, replies, emitted, recorded>>

\* for i in range(budget): yield (oid[scores_idx[i]], True)
NonInteractiveYield ==
    /\ pc = "n_loop"
    /\ IF i < budget
       THEN IF i + 1 \in DOMAIN scores_idx
            THEN /\ emitted' = Append(emitted, [oid |-> oids[scores_idx[i + 1]],
                                                decision |-> TRUE])
                 /\ pc' = "anomaly_write"
                 /\ exc' = exc
            ELSE /\ RaiseInWith("IndexError")
                 /\ emitted' = emitted
       ELSE /\ pc' = "exit"
            /\ UNCHANGED <<exc, emitted>>
    /\ UNCHANGED <<config, locals, files, model_log, queries, replies, recorded>>

(* ------------------------ ResultsSink.__call__ ------------------------- *)

\* the record main has just received
Current == emitted[Len(emitted)]

\* after sink(oid, decision) has returned the for loop asks for the next item
Resume == IF engine.non_interactive THEN "n_loop" ELSE "i_loop"

\* _handle_anomaly: return if not decision, else write
AnomalyWrite ==
    /\ pc = "anomaly_write"
    /\ IF ~Current.decision
       THEN /\ pc' = "answer_write"
            /\ UNCHANGED <<exc, sink_anomalies>>
       ELSE IF WriteOutcome(sink_anomalies) = "ok"
            THEN /\ sink_anomalies' = Written(sink_anomalies, <<Current.oid>>)
                 /\ pc' = "anomaly_flush"
                 /\ exc' = exc
            ELSE /\ RaiseInWith(WriteOutcome(sink_anomalies))
                 /\ sink_anomalies' = sink_anomalies
    /\ UNCHANGED <<config, locals, sink_answers, history>>

\* self._anomalies.flush(): the data reaches the file, or the device refuses
\* it and the data stays in the buffer
AnomalyFlush ==
    /\ pc = "anomaly_flush"
    /\ \/ /\ sink_anomalies' = Flushed(sink_anomalies)
          /\ pc' = "answer_write"
          /\ exc' = exc
       \/ /\ RaiseInWith("OSError")
          /\ sink_anomalies' = sink_anomalies
    /\ UNCHANGED <<config, locals, sink_answers, history>>

\* _handle_answer: return if self._answers is None, else write
AnswerWrite ==
    /\ pc = "answer_write"
    /\ IF sink_answers.handle = "None"
       THEN /\ recorded' = recorded + 1
            /\ i' = i + 1
            /\ pc' = Resume
            /\ UNCHANGED <<exc, sink_answers>>
       ELSE IF WriteOutcome(sink_answers) = "ok"
            THEN /\ sink_answers' = Written(sink_answers,
                                            AnswerLine(Current.oid, Current.decision))
                 /\ pc' = "answer_flush"
                 /\ UNCHANGED <<exc, recorded, i>>
            ELSE /\ RaiseInWith(WriteOutcome(sink_answers))
                 /\ UNCHANGED <<sink_answers, recorded, i>>
    /\ UNCHANGED <<config, engine, answers, answers_loaded, oids, known, budget,
                   scores, scores_idx, a, result, sink_anomalies, model_log,
                   queries, replies, emitted>>

\* self._answers.flush(), then __call__ returns
AnswerFlush ==
    /\ pc = "answer_flush"
    /\ \/ /\ sink_answers' = Flushed(sink_answers)
          /\ recorded' = recorded + 1
          /\ i' = i + 1
          /\ pc' = Resume
          /\ exc' = exc
       \/ /\ RaiseInWith("OSError")
          /\ UNCHANGED <<sink_answers, recorded, i>>
    /\ UNCHANGED <<config, engine, answers, answers_loaded, oids, known, budget,
                   scores, scores_idx, a, result, sink_anomalies, model_log,
                   queries, replies, emitted>>

\* ResultsSink.__exit__: _cleanup, then return False, so the exception in
\* flight (or the one a close has just raised) leaves main
Exit ==
    /\ pc = "exit"
    /\ \E c \in CleanupOutcomes(sink_anomalies, sink_answers) :
          /\ sink_anomalies' = c.anomalies
          /\ sink_answers' = c.answers
          /\ exc' = IF c.raised THEN "OSError" ELSE exc
    /\ pc' = IF exc' = NoExc THEN "done" ELSE "error"
    /\ UNCHANGED <<config, locals, history>>

\* the process is killed: its memory, the unflushed buffers included, is
\* gone; what was flushed stays in the files
Kill ==
    /\ pc \notin {"done", "error", "killed"}
    /\ pc' = "killed"
    /\ exc' = NoExc
    /\ sink_anomalies' = [sink_anomalies EXCEPT !.buf = <<>>]
    /\ sink_answers' = [sink_answers EXCEPT !.buf = <<>>]
    /\ engine' = <<>>
    /\ answers' = <<>>
    /\ answers_loaded' = FALSE
    /\ oids' = <<>>
    /\ known' = <<>>
    /\ budget' = 0
    /\ i' = 0
    /\ scores' = <<>>
    /\ scores_idx' = <<>>
    /\ a' = 0
    /\ result' = FALSE
    /\ UNCHANGED <<config, history>>

Next ==
    \/ ParseArguments
    \/ FromArgs
    \/ LoadAnswers
    \/ LoadData
    \/ Transform
    \/ SinkInit
    \/ Train
    \/ HandleInitialKnowns
    \/ InteractiveStart
    \/ InteractiveLoop
    \/ Score
    \/ Select
    \/ Evaluate
    \/ Observe
    \/ Yield
    \/ NonInteractiveStart
    \/ NonInteractiveYield
    \/ AnomalyWrite
    \/ AnomalyFlush
    \/ AnswerWrite
    \/ AnswerFlush
    \/ Exit
    \/ Kill

Spec == Init /\ [][Next]_vars


(* ------------------------------ claims --------------------------------- *)

\* the merged prior answers of this run
PriorAnswers == load_answers(args.prior_answers)

\* the row of the data that has an identity
RowOf(oid) == oid \div 10

\* every line a file has received, flushed or not
Lines(f) == f.disk \o f.buf

\* the lines of the answers target other than the header
DataLines(lines) == SelectSeq(lines, LAMBDA ln : Len(ln) = 2)

\* C1: no identity that is a key of the prior answers map appears in the
\* anomalies stream or in the answers stream, in either mode.
C1_PriorsNeverReported ==
    /\ \A k \in DOMAIN Lines(sink_anomalies) :
          Lines(sink_anomalies)[k][1] \notin DOMAIN PriorAnswers
    /\ \A k \in DOMAIN DataLines(Lines(sink_answers)) :
          DataLines(Lines(sink_answers))[k][1] \notin DOMAIN PriorAnswers

\* every row of the data is a key of known
AllKnown == oids # <<>> /\ \A r \in DOMAIN oids : r \in DOMAIN known

\* C2: in interactive mode, when an iteration finds every row already known,
\* the decision sequence ends normally: no oracle query and no error.
C2_AllKnownEndsNormally ==
    [][(pc = "select" /\ AllKnown)
          => (exc' = NoExc /\ queries' = queries /\ pc' \in {"exit", "killed"})]_vars

\* C3: after seeding, each row whose identity has a prior answer is labelled,
\* in the seed observe batch and in known, ANOMALY when its answer is true
\* and REGULAR when it is false.
C3_SeedLabelsFollowAnswers ==
    (pc = "start" /\ DOMAIN answers # {}) =>
        LET seed == model_log[Len(model_log)]
        IN /\ seed.call = "observe"
           /\ \A k \in DOMAIN seed.rows :
                 seed.labels[k] = LabelOf(answers[oids[seed.rows[k]]])
           /\ DOMAIN known = {r \in DOMAIN oids : oids[r] \in DOMAIN answers}
           /\ \A r \in DOMAIN known : known[r] = LabelOf(answers[oids[r]])

\* C4: a non-interactive run with N rows and requested budget B emits
\* min(B, N) records when it ends, never more on the way, each with decision
\* true, and a budget larger than N never makes it index past the data.
C4_BudgetClamp ==
    args.non_interactive =>
        /\ exc # "IndexError"
        /\ Len(emitted) <= Min(args.budget, n_rows)
        /\ \A k \in DOMAIN emitted : emitted[k].decision = TRUE
        /\ (pc \in {"exit", "done"} /\ exc = NoExc)
              => Len(emitted) = Min(args.budget, n_rows)

\* a non-interactive run has ended normally with a budget larger than the data
C4_Witness ==
    /\ pc = "done"
    /\ args.non_interactive
    /\ args.budget > n_rows
    /\ Len(emitted) = n_rows

\* the ascending permutation that keeps rows of equal score in row order
StableArgsort(sc) ==
    CHOOSE p \in Permutations1(Len(sc)) :
        \A x, y \in 1..Len(sc) :
            x < y => \/ sc[p[x]] < sc[p[y]]
                     \/ sc[p[x]] = sc[p[y]] /\ p[x] < p[y]

\* a non-interactive run between its score call and its end
NonInteractiveRunning == pc # "killed" /\ args.non_interactive /\ scores # <<>>

\* C5 as stated: the records are emitted in ascending score order and rows of
\* equal score in row order.
C5_StableOrder ==
    NonInteractiveRunning =>
        \A k \in DOMAIN emitted : emitted[k].oid = oids[StableArgsort(scores)[k]]

\* C5 amended: the records emitted are distinct rows in ascending score order
\* and no row left out has a smaller score than an emitted one; the order of
\* rows of equal score is not fixed.
C5_AscendingOrder ==
    NonInteractiveRunning =>
        LET row(k) == RowOf(emitted[k].oid)
            out == {row(k) : k \in DOMAIN emitted}
        IN /\ \A k \in DOMAIN emitted : row(k) \in DOMAIN oids
           /\ \A j, k \in DOMAIN emitted : j < k =>
                 /\ row(j) # row(k)
                 /\ scores[row(j)] <= scores[row(k)]
           /\ \A k \in DOMAIN emitted : \A r \in (DOMAIN oids) \ out :
                 scores[row(k)] <= scores[r]

\* two records have been emitted against the row order because the second
\* row has the strictly smaller score
C5_Witness ==
    /\ NonInteractiveRunning
    /\ Len(emitted) = 2
    /\ emitted[1].oid = 20
    /\ emitted[2].oid = 10
    /\ scores[2] < scores[1]


\* C6: each completed interactive iteration adds exactly one key to known,
\* the row just queried, which was not a key before; no key is removed or
\* relabelled while the process lives; a row that is known or was queried is
\* never presented to the oracle again.
C6_KnownGrowsByQueriedRow ==
    [][pc' # "killed" =>
          /\ \A r \in DOMAIN known : r \in DOMAIN known' /\ known'[r] = known[r]
          /\ (pc = "observe" /\ pc' = "yield") =>
                /\ a \notin DOMAIN known
                /\ DOMAIN known' = (DOMAIN known) \cup {a}
                /\ oids[a] = queries[Len(queries)]
          /\ (known' # known /\ pc # "seed") => (pc = "observe" /\ pc' = "yield")
          /\ (queries' # queries) =>
                /\ a \notin DOMAIN known
                /\ \A k \in DOMAIN queries : queries[k] # oids[a]
                /\ queries' = Append(queries, oids[a])]_vars

\* a second oracle answer has been observed in a run seeded with prior
\* answers: known holds the seeded row and the two queried rows
C6_Witness ==
    /\ pc = "yield"
    /\ Len(queries) = 2
    /\ queries[1] # queries[2]
    /\ Cardinality(DOMAIN known) = 3
    /\ DOMAIN PriorAnswers # {}

\* the lines the records of a sequence put into the anomalies target
AnomalyLinesOf(records) ==
    LET positive == SelectSeq(records, LAMBDA rec : rec.decision)
    IN [k \in DOMAIN positive |-> <<positive[k].oid>>]

\* the lines the records of a sequence put into the answers target
AnswerLinesOf(records) ==
    [k \in DOMAIN records |-> <<records[k].oid, IF records[k].decision THEN 1 ELSE 0>>]

\* the records whose sink call has returned
Completed == SubSeq(emitted, 1, recorded)

\* C7: at every point (so wherever the process is killed) the flushed content
\* of the anomalies target is the identities of the positive records among
\* the completed sink calls, in order, and the flushed data lines of the
\* answers target, when there is one, are the completed records, in order;
\* only the record whose sink call is in progress may be there or not.
C7_SinkDurability ==
    /\ recorded <= Len(emitted)
    /\ Len(emitted) <= recorded + 1
    /\ \/ sink_anomalies.disk = AnomalyLinesOf(Completed)
       \/ sink_anomalies.disk = AnomalyLinesOf(emitted)
    /\ sink_answers.handle # "None" =>
          \/ DataLines(sink_answers.disk) = AnswerLinesOf(Completed)
          \/ DataLines(sink_answers.disk) = AnswerLinesOf(emitted)

\* the process was killed during the third sink call, after two calls had
\* completed with a positive and a negative decision
C7_Witness ==
    /\ pc = "killed"
    /\ recorded = 2
    /\ Len(emitted) = 3
    /\ sink_answers.handle = "open"
    /\ Len(sink_anomalies.disk) = 1
    /\ Len(DataLines(sink_answers.disk)) = 2

\* C8: while a requested target is not open because its open failed, no
\* engine run has started, no oracle query was made and no record reached
\* the sink (the failure left the constructor instead).
C8_OpenFailurePropagates ==
    (\/ sink_anomalies.handle = "None"
     \/ args.answers # "None" /\ sink_answers.handle = "None")
        => (model_log = <<>> /\ queries = <<>> /\ emitted = <<>>)

\* C9: non-interactive mode without a prior answers source, or with an
\* answers output, ends in ValueError with no engine, no input loaded, no
\* target opened, no detector call and no query; so an engine in
\* non-interactive mode has a prior answers source and no answers target,
\* and the answers target is only written in interactive mode.
C9_ConfigurationRejected ==
    /\ (args.non_interactive /\ (args.prior_answers = <<>> \/ args.answers # "None"))
          => /\ pc \in {"parse_arguments", "error", "killed"}
             /\ pc = "error" => exc = "ValueError"
             /\ engine = <<>>
             /\ ~answers_loaded
             /\ oids = <<>>
             /\ sink_anomalies = NoFile
             /\ sink_answers = NoFile
             /\ model_log = <<>>
             /\ queries = <<>>
    /\ (engine # <<>> /\ engine.non_interactive)
          => (args.prior_answers # <<>> /\ args.answers = "None")
    /\ Lines(sink_answers) # <<>> => ~args.non_interactive

\* a non-interactive configuration with an answers output has been rejected
C9_Witness ==
    /\ pc = "error"
    /\ exc = "ValueError"
    /\ args.non_interactive
    /\ args.prior_answers # <<>>
    /\ args.answers # "None"

\* C10: once the scope of the sink has been left, normally or by an
\* exception, every target that was opened is closed, and an exception that
\* ended the loop has left main.
C10_TargetsClosedOnExit ==
    pc \in {"done", "error"} =>
        /\ sink_anomalies.handle \in {"None", "closed"}
        /\ sink_answers.handle \in {"None", "closed"}
        /\ pc = "done" <=> exc = NoExc


\* the oracle interactions so far: the identity asked about and the answer
Interactions == [k \in DOMAIN replies |-> [oid |-> queries[k], decision |-> replies[k]]]

\* C11: in interactive mode the k-th record emitted carries the identity of
\* the k-th query and the oracle's k-th answer, a record follows each answer
\* before the next query, and when the run ends normally the anomalies
\* target holds the confirmed identities in query order and the answers
\* target, when there is one, one line per interaction in order.
C11_RecordsFollowOracle ==
    ~args.non_interactive =>
        /\ Len(replies) <= Len(queries)
        /\ Len(queries) <= Len(replies) + 1
        /\ Len(emitted) <= Len(replies)
        /\ Len(replies) <= Len(emitted) + 1
        /\ Len(queries) <= Len(emitted) + 1
        /\ \A k \in DOMAIN emitted : emitted[k] = Interactions[k]
        /\ pc = "done" =>
              /\ Len(emitted) = Len(queries)
              /\ sink_anomalies.handle # "None" =>
                    sink_anomalies.disk = AnomalyLinesOf(Interactions)
              /\ sink_answers.handle # "None" =>
                    DataLines(sink_answers.disk) = AnswerLinesOf(Interactions)

\* an interactive run with an answers target has ended normally after the
\* oracle confirmed the first row it was asked about and rejected the second
C11_Witness ==
    /\ pc = "done"
    /\ ~args.non_interactive
    /\ replies = <<TRUE, FALSE>>
    /\ sink_anomalies.disk = <<<<queries[1]>>>>
    /\ Len(DataLines(sink_answers.disk)) = 2

\* C12: an interactive run queries the oracle at most min(requested budget,
\* N) times, and a run of either mode emits at most that many records.
C12_BudgetBoundsQueries ==
    /\ Len(emitted) <= Min(args.budget, n_rows)
    /\ Len(queries) <= Min(args.budget, n_rows)
    /\ Len(replies) <= Min(args.budget, n_rows)

\* an interactive run has used up a budget smaller than the data
C12_Witness ==
    /\ pc = "done"
    /\ ~args.non_interactive
    /\ args.budget = 2
    /\ n_rows = 3
    /\ Len(queries) = 2
    /\ Len(emitted) = 2


(* ------------------- load_answers checked alone ------------------------ *)

\* the prior answers files and source lists load_answers is given
LoadRows == [oid : {10, 20}, is_anomaly : BOOLEAN]
LoadFiles == UNION {[1..k -> LoadRows] : k \in 0..MaxRows}
LoadSources == UNION {[1..k -> LoadFiles] : k \in 0..MaxSources}

\* main has reached answers = load_answers(args.prior_answers) in an
\* interactive run without an answers target
InitLoad ==
    /\ args \in [non_interactive : {FALSE}, prior_answers : LoadSources,
                 answers : {"None"}, budget : {0}]
    /\ n_rows = 1
    /\ pc = "load_answers"
    /\ exc = NoExc
    /\ engine = [budget |-> 0, non_interactive |-> FALSE]
    /\ answers = <<>>
    /\ answers_loaded = FALSE
    /\ oids = <<>>
    /\ sink_anomalies = NoFile
    /\ sink_answers = NoFile
    /\ known = <<>>
    /\ budget = 0
    /\ i = 0
    /\ scores = <<>>
    /\ scores_idx = <<>>
    /\ a = 0
    /\ result = FALSE
    /\ model_log = <<>>
    /\ queries = <<>>
    /\ replies = <<>>
    /\ emitted = <<>>
    /\ recorded = 0

NextLoad == LoadAnswers

SpecLoad == InitLoad /\ [][NextLoad]_vars

\* the rows of all sources, in the order they are read
RECURSIVE AllRows(_)
AllRows(sources) ==
    IF sources = <<>> THEN <<>>
    ELSE AllRows(SubSeq(sources, 1, Len(sources) - 1)) \o sources[Len(sources)]

\* the position of the last row that mentions an identity
LastRowOf(rows, id) ==
    CHOOSE k \in DOMAIN rows :
        /\ rows[k].oid = id
        /\ \A j \in DOMAIN rows : rows[j].oid = id => j <= k

\* C13: the map load_answers returns has the identities of all sources as
\* keys, each with the value of the last row of the last source that
\* mentions it; without sources it is empty.
C13_LastWriteWins ==
    answers_loaded =>
        LET rows == AllRows(args.prior_answers)
        IN /\ DOMAIN answers = {rows[k].oid : k \in DOMAIN rows}
           /\ \A id \in DOMAIN answers :
                 answers[id] = rows[LastRowOf(rows, id)].is_anomaly
           /\ args.prior_answers = <<>> => DOMAIN answers = {}

\* two sources disagree about identity 10, the second one within itself too,
\* and a key comes from the first source only
C13_Witness ==
    /\ answers_loaded
    /\ args.prior_answers =
          << <<[oid |-> 10, is_anomaly |-> TRUE], [oid |-> 20, is_anomaly |-> TRUE]>>,
             <<[oid |-> 10, is_anomaly |-> TRUE], [oid |-> 10, is_anomaly |-> FALSE]>> >>
    /\ answers[10] = FALSE
    /\ answers[20] = TRUE


(* --------------- _handle_initial_knowns called twice ------------------- *)

\* run has trained the detector and is about to seed it; the files, the
\* data and both targets were opened without failure
InitSeed ==
    /\ args \in {ar \in Args : ~ParseRejects(ar)}
    /\ n_rows \in 1..MaxN
    /\ pc = "seed"
    /\ exc = NoExc
    /\ engine = [budget |-> args.budget, non_interactive |-> args.non_interactive]
    /\ answers = load_answers(args.prior_answers)
    /\ answers_loaded = TRUE
    /\ oids = [r \in 1..n_rows |-> 10 * r]
    /\ sink_anomalies = Opened
    /\ sink_answers = IF args.answers = "None" THEN NoFile
                      ELSE Written(Opened, <<HEADER>>)
    /\ known = <<>>
    /\ budget = 0
    /\ i = 0
    /\ scores = <<>>
    /\ scores_idx = <<>>
    /\ a = 0
    /\ result = FALSE
    /\ model_log = <<[call |-> "train"]>>
    /\ queries = <<>>
    /\ replies = <<>>
    /\ emitted = <<>>
    /\ recorded = 0

\* a caller that seeds the same engine a second time with the same
\* identities and the same answers
HandleInitialKnownsAgain == HandleInitialKnownsAt("start", "reseeded")

NextSeed ==
    \/ HandleInitialKnowns
    \/ HandleInitialKnownsAgain

SpecSeed == InitSeed /\ [][NextSeed]_vars

\* the observe calls a model has received
Observes(log) == SelectSeq(log, LAMBDA e : e.call = "observe")

\* the rows whose identity has a prior answer
LocatedRows == {r \in DOMAIN oids : oids[r] \in DOMAIN answers}

Scores(log) == SelectSeq(log, LAMBDA e : e.call = "score")

\* the number of observe calls made after the first score call, that is by
\* the iterations and not by the seeding
IterationObserves ==
    Cardinality({k \in DOMAIN model_log :
                    /\ model_log[k].call = "observe"
                    /\ \E j \in 1..(k - 1) : model_log[j].call = "score"})

\* every emitted record is in the targets that were opened, and flushed
AllFlushed ==
    /\ sink_anomalies.handle # "None" =>
          /\ sink_anomalies.disk = AnomalyLinesOf(emitted)
          /\ sink_anomalies.buf = <<>>
    /\ sink_answers.handle # "None" =>
          /\ DataLines(sink_answers.disk) = AnswerLinesOf(emitted)
          /\ DataLines(sink_answers.buf) = <<>>

\* C15: in interactive mode the k-th score call comes before the k-th oracle
\* query, that before the k-th observe of an iteration, that before the
\* emission of record k, that before the return of its sink call, and that
\* before the (k+1)-th score call; while no sink call is in progress (so
\* whenever the oracle is asked) every emitted record is flushed.
C15_IterationsStrictlyOrdered ==
    ~args.non_interactive =>
        /\ recorded <= Len(emitted)
        /\ Len(emitted) <= IterationObserves
        /\ IterationObserves <= Len(queries)
        /\ Len(queries) <= Len(Scores(model_log))
        /\ Len(Scores(model_log)) <= recorded + 1
        /\ pc \in {"score", "select", "evaluate", "observe", "yield"} =>
              /\ recorded = Len(emitted)
              /\ AllFlushed

\* the oracle is about to be asked a second time, after the first record,
\* a positive one, reached both targets
C15_Witness ==
    /\ pc = "evaluate"
    /\ ~args.non_interactive
    /\ Len(queries) = 1
    /\ Len(Scores(model_log)) = 2
    /\ recorded = 1
    /\ Len(sink_anomalies.disk) = 1
    /\ Len(DataLines(sink_answers.disk)) = 1


\* C16: the row an interactive iteration presents to the oracle is not a key
\* of known and no row that is not a key of known has a lower score; the
\* scores are those of this iteration's score call, which is the last call
\* the model has received, after every earlier observe.
C16_QueriesLowestUnknown ==
    [][(~args.non_interactive /\ Len(queries') = Len(queries) + 1) =>
          LET r == RowOf(queries'[Len(queries')])
          IN /\ r \in DOMAIN oids
             /\ r \notin DOMAIN known
             /\ \A u \in (DOMAIN oids) \ (DOMAIN known) : scores[r] <= scores[u]
             /\ model_log[Len(model_log)].call = "score"
             /\ Len(Scores(model_log)) = Len(queries')]_vars

\* in the second iteration a known row has a lower score than the row
\* selected for the oracle
C16_Witness ==
    /\ pc = "evaluate"
    /\ ~args.non_interactive
    /\ Len(queries) = 1
    /\ a \notin DOMAIN known
    /\ \E r \in DOMAIN known : scores[r] < scores[a]


(* ------------------------ order of the model calls --------------------- *)

\* the rows of the data whose identity is a key of the prior answers
SeedRows == {r \in 1..n_rows : 10 * r \in DOMAIN PriorAnswers}

\* a score call precedes position k of the model's calls
ScoredBefore(k) == \E j \in 1..(k - 1) : model_log[j].call = "score"

\* C17: the first call the model receives is train and no later call is;
\* with a non-empty prior answers map the second call is the seed observe, one
\* batch with every located row, and no other observe precedes a score call;
\* with an empty map no observe precedes a score call; so every score call
\* comes after both, in either mode, and a run that ends normally has made
\* them.
C17_TrainThenSeedOnce ==
    LET seeded == DOMAIN PriorAnswers # {}
    IN /\ \A k \in DOMAIN model_log :
             /\ model_log[k].call = "train" <=> k = 1
             /\ model_log[k].call = "observe" /\ ~ScoredBefore(k) =>
                   /\ seeded
                   /\ k = 2
                   /\ Range(model_log[k].rows) = SeedRows
             /\ model_log[k].call = "score" /\ seeded =>
                   /\ k > 2
                   /\ model_log[2].call = "observe"
       /\ pc = "done" =>
             /\ model_log # <<>>
             /\ seeded => Len(model_log) >= 2 /\ model_log[2].call = "observe"

\* an interactive run with two located prior answers has ended after an
\* iteration
C17_Witness ==
    /\ pc = "done"
    /\ ~args.non_interactive
    /\ Len(model_log) >= 4
    /\ model_log[2].call = "observe"
    /\ Len(model_log[2].rows) = 2
    /\ model_log[3].call = "score"
    /\ model_log[4].call = "observe"


(* ------------------- failure inside an iteration ----------------------- *)

\* a model call or the oracle query of an interactive iteration has failed
IterationFailed ==
    /\ ~args.non_interactive
    /\ exc \in {"ModelError", "Abort"}
    /\ Scores(model_log) # <<>>

\* C18: after a score call, an observe call or the oracle query of
\* interactive iteration k has failed, the only thing that happens is that
\* the sink is left and the exception leaves main (or the process is
\* killed): no model call, no oracle query and no record follows, an
\* exception is still in flight when main ends, and the opened targets hold
\* exactly the records of iterations 1..k-1, flushed.
C18_IterationFailureAborts ==
    [][IterationFailed =>
          /\ pc = "exit"
          /\ Len(emitted) = Len(Scores(model_log)) - 1
          /\ recorded = Len(emitted)
          /\ AllFlushed
          /\ history' = history
          /\ pc' \in {"error", "killed"}
          /\ pc' = "error" =>
                /\ exc' # NoExc
                /\ sink_anomalies'.disk = sink_anomalies.disk
                /\ DataLines(sink_answers'.disk) = DataLines(sink_answers.disk)]_vars

\* the oracle query of the second iteration was interrupted: the run has
\* ended with that exception and the first record is in both targets
C18_Witness ==
    /\ pc = "error"
    /\ exc = "Abort"
    /\ ~args.non_interactive
    /\ Len(queries) = 2
    /\ Len(emitted) = 1
    /\ Len(DataLines(sink_answers.disk)) = 1


(* ------------------ known and the model's observations ----------------- *)

\* the observations of row r the model has been given: the positions <<k, j>>
\* of r in the rows of the observe calls
ObservationsOf(r) ==
    UNION {{<<k, j>> : j \in {j \in DOMAIN model_log[k].rows :
                                 model_log[k].rows[j] = r}} :
           k \in {k \in DOMAIN model_log : model_log[k].call = "observe"}}

\* C19: while an interactive run is going on without a failed call, a row is
\* a key of known exactly if the model was given one observation of it, no
\* row was observed twice, and the label known holds for a row is the label
\* that was passed to observe for it.
C19_KnownMirrorsObservations ==
    (~args.non_interactive /\ exc = NoExc /\ pc # "killed") =>
        \A r \in 1..n_rows :
            /\ r \in DOMAIN known <=> Cardinality(ObservationsOf(r)) = 1
            /\ Cardinality(ObservationsOf(r)) <= 1
            /\ \A kj \in ObservationsOf(r) :
                  known[r] = model_log[kj[1]].labels[kj[2]]

\* two seeded rows and a row the oracle has just rejected are known
C19_Witness ==
    /\ pc = "yield"
    /\ ~args.non_interactive
    /\ exc = NoExc
    /\ Len(Observes(model_log)) = 2
    /\ Len(Observes(model_log)[1].rows) = 2
    /\ DOMAIN known = {1, 2, 3}
    /\ known[a] = REGULAR

\* C20: whenever the answers target has been opened, its flushed content
\* begins with the header line, also before the first record is handled.
C20_HeaderAlwaysDurable ==
    sink_answers.handle # "None" =>
        /\ sink_answers.disk # <<>>
        /\ sink_answers.disk[1] = <<HEADER>>

====
